---- MODULE Spec2Model ----
(***************************************************************************)
(* SyncDB: a model of syncdb/database.py (DatabaseConnection) and          *)
(* syncdb/syncer.py (DatabaseSyncer).  Two endpoints, "source" and         *)
(* "target", each have a database (tables with columns and rows), an       *)
(* engine handle and a MetaData catalog snapshot.  The three public        *)
(* operations sync_schema, sync_data and sync_all are one action each.     *)
(***************************************************************************)
EXTENDS Bags, FiniteSets, Integers, Sequences, TLC

(* ---------------------------------------------------------------- bounds *)

\* Most rows a table may hold; the external inserts and the sync calls whose
\* result would exceed it are not explored.
MaxRows == 2

(* ------------------------------------------------------------ the domain *)

Endpoints == {"source", "target"}

TableNames == {"users", "orders"}

\* Names a table filter may hold; "ghost" is a table of no database.
FilterNames == TableNames \cup {"ghost"}

\* The python value None (no metadata, no filter, no failure).
None == "None"

\* A column no value was given for.
Null == "NULL"

\* The place of a table name in a database's listing of its table names.
NameRank(t) == IF t = "orders" THEN 1 ELSE 2

(* A column descriptor as reflection delivers it.  default is the python-side
   default, which reflection never sets; server_default is the DDL default. *)
Col(n, ty, nl, pk, sd) ==
    [name |-> n, type |-> ty, nullable |-> nl, primary_key |-> pk,
     default |-> None, server_default |-> sd]

\* users(id INTEGER PRIMARY KEY, name TEXT): the shape of the test fixture.
UsersCols ==
    << Col("id", "INTEGER", FALSE, TRUE, None),
       Col("name", "TEXT", TRUE, FALSE, "anon") >>

\* A users table made by someone else: other column order, no primary key.
LegacyUsersCols ==
    << Col("name", "TEXT", TRUE, FALSE, None),
       Col("email", "TEXT", TRUE, FALSE, None),
       Col("id", "INTEGER", TRUE, FALSE, None) >>

\* orders(item TEXT): a table without a primary key.
OrdersCols == << Col("item", "TEXT", TRUE, FALSE, None) >>

\* The column layouts someone else's CREATE TABLE may give a table.
Layouts(e, t) ==
    IF t = "orders" THEN {OrdersCols} ELSE {LegacyUsersCols}

\* The i-th row written into the source, and a row unrelated to the source.
SampleRow(cols, i) ==
    [n \in {cols[k].name : k \in 1..Len(cols)} |->
        IF n = "id" THEN "id" \o ToString(i) ELSE n \o ToString(i)]

OldRow(cols, i) ==
    [n \in {cols[k].name : k \in 1..Len(cols)} |->
        IF n = "id" THEN "old" \o ToString(i) ELSE "x" \o ToString(i)]

(* ------------------------------------------------------------ databases *)

ColNames(cols) == {cols[k].name : k \in 1..Len(cols)}

\* A table that does not exist in a database.
NoTable == [exists |-> FALSE, cols |-> << >>, rows |-> EmptyBag]

NewTable(cols) == [exists |-> TRUE, cols |-> cols, rows |-> EmptyBag]

RECURSIVE SumCopies(_, _)
\* The number of copies the bag b holds of the elements of S.
SumCopies(b, S) ==
    IF S = {} THEN 0
    ELSE LET x == CHOOSE y \in S : TRUE
         IN  b[x] + SumCopies(b, S \ {x})

\* The bag of the images f[x] of the elements x of the bag b.
BagMap(f, b) ==
    [y \in {f[x] : x \in DOMAIN b} |->
        SumCopies(b, {x \in DOMAIN b : f[x] = y})]

\* The names of the tables a database holds.
Available(tables) == {t \in TableNames : tables[t].exists}

(* ------------------------------------------------------------- catalogs *)

\* MetaData: none is "self.metadata is None"; tables is MetaData.tables, a
\* dict in insertion order, here a sequence of [name, cols] entries.
NoMetaData == [none |-> TRUE, tables |-> << >>]

CatNames(cat) == {cat[k].name : k \in 1..Len(cat)}

CatEntry(cat, t) == cat[CHOOSE k \in 1..Len(cat) : cat[k].name = t]

RECURSIVE InListingOrder(_)
\* The names of S as a database lists them.
InListingOrder(S) ==
    IF S = {} THEN << >>
    ELSE LET t == CHOOSE x \in S : \A y \in S : NameRank(x) <= NameRank(y)
         IN  << t >> \o InListingOrder(S \ {t})

\* MetaData.reflect(bind=engine): loads the tables of the database that the
\* MetaData does not hold yet; the tables it holds stay as they are.
Reflect(cat, tables) ==
    LET load == InListingOrder(Available(tables) \ CatNames(cat))
    IN  cat \o [k \in 1..Len(load) |->
                   [name |-> load[k], cols |-> tables[load[k]].cols]]

(* ---------------------------------------------------- inputs of a call *)

\* The tables argument: given is FALSE for None; names are the list's names.
NoFilter == [given |-> FALSE, names |-> {}]

Filter(S) == [given |-> TRUE, names |-> S]

\* The filters of the calls: none, and one that names a table of the source
\* and a table of no database.
Filters == {NoFilter, Filter({"users", "ghost"})}

\* Truthy with a slip: the test reads "if tables is not None:".
Truthy_NotNone(tables) == tables.given

\* "if tables:" -- a list that is neither None nor empty.
Truthy(tables) == tables.given /\ tables.names # {}

(* The step of a call the database makes fail (a dropped connection, a
   refused statement); at most the first failure of a call matters, since
   every failure ends the call. *)
NoFault == [kind |-> "none", table |-> "-"]

Faults ==
    {NoFault}
    \cup {[kind |-> "reflect_schema", table |-> "-"],
          [kind |-> "reflect_data", table |-> "-"]}
    \cup {[kind |-> k, table |-> t] :
            k \in {"create", "truncate", "read", "insert"}, t \in TableNames}

\* The failure a call ended with: the step that raised, or none.
NoFailure == NoFault

StateError == [kind |-> "not_connected", table |-> "-"]

Failure(k, t) == [kind |-> k, table |-> t]

\* A step a call went into: "create", "skip", "truncate", "read" or "insert"
\* of a table, or the "reflect" of the target catalog.
Step(k, t) == [step |-> k, table |-> t]

(* ------------------------------------------------------------ the syncer *)

\* syncer.py 38-39, 78-79: the source tables whose name is in the filter,
\* in the catalog's order; all of them when the filter is None or empty.
\* SelectTables with a slip: the filter is not applied.
SelectTables_All(cat, tables) == cat

RECURSIVE SelectTables(_, _)
SelectTables(cat, tables) ==
    IF cat = << >> THEN << >>
    ELSE IF ~Truthy(tables) \/ Head(cat).name \in tables.names
         THEN << Head(cat) >> \o SelectTables(Tail(cat), tables)
         ELSE SelectTables(Tail(cat), tables)

\* CopyColumns with a slip: the primary-key flag is not passed on.
CopyColumns_NoPrimaryKey(cols) ==
    [k \in 1..Len(cols) |->
        [name |-> cols[k].name, type |-> cols[k].type,
         nullable |-> cols[k].nullable, primary_key |-> FALSE,
         default |-> cols[k].default, server_default |-> None]]

\* syncer.py 131-139: the columns of the new table; name, type, primary_key,
\* nullable and (python-side) default are copied, nothing else.
CopyColumns(cols) ==
    [k \in 1..Len(cols) |->
        [name |-> cols[k].name, type |-> cols[k].type,
         nullable |-> cols[k].nullable, primary_key |-> cols[k].primary_key,
         default |-> cols[k].default, server_default |-> None]]

\* CreateTable with a slip: a table the database already holds is dropped and
\* created anew.
CreateTable_DropFirst(tdb, source_table) ==
    [tdb EXCEPT ![source_table.name] = NewTable(CopyColumns(source_table.cols))]

\* syncer.py 123-147, _create_table: create_all checks first and leaves a table
\* the database already holds alone.
CreateTable(tdb, source_table) ==
    IF tdb[source_table.name].exists THEN tdb
    ELSE [tdb EXCEPT ![source_table.name] =
                NewTable(CopyColumns(source_table.cols))]

\* CreateMissing with a slip: the target catalog is not consulted, every
\* selected table is created.
RECURSIVE CreateMissing_Always(_, _, _, _)
CreateMissing_Always(source_tables, target_names, tdb, fault) ==
    IF source_tables = << >> THEN [tdb |-> tdb, failed |-> NoFailure, log |-> << >>]
    ELSE LET source_table == Head(source_tables)
             create == << Step("create", source_table.name) >>
         IN  IF fault = Failure("create", source_table.name)
             THEN [tdb |-> tdb, failed |-> fault, log |-> create]
             ELSE [CreateMissing_Always(Tail(source_tables), target_names,
                                        CreateTable(tdb, source_table), fault)
                      EXCEPT !.log = create \o @]

\* CreateMissing with a slip: after a failed create the loop goes on with the
\* next table, and the failure is reported at the end.
RECURSIVE CreateMissing_Continue(_, _, _, _)
CreateMissing_Continue(source_tables, target_names, tdb, fault) ==
    IF source_tables = << >> THEN [tdb |-> tdb, failed |-> NoFailure, log |-> << >>]
    ELSE LET source_table == Head(source_tables)
             create == << Step("create", source_table.name) >>
         IN  IF source_table.name \in target_names
             THEN CreateMissing_Continue(Tail(source_tables), target_names, tdb,
                                         fault)
             ELSE IF fault = Failure("create", source_table.name)
             THEN [CreateMissing_Continue(Tail(source_tables), target_names,
                                          tdb, fault)
                      EXCEPT !.log = create \o @, !.failed = fault]
             ELSE [CreateMissing_Continue(Tail(source_tables), target_names,
                                          CreateTable(tdb, source_table), fault)
                      EXCEPT !.log = create \o @]

RECURSIVE CreateMissing(_, _, _, _)
\* syncer.py 42-48: the loop of sync_schema over the selected source tables.
CreateMissing(source_tables, target_names, tdb, fault) ==
    IF source_tables = << >> THEN [tdb |-> tdb, failed |-> NoFailure, log |-> << >>]
    ELSE LET source_table == Head(source_tables)
             create == << Step("create", source_table.name) >>
         IN  IF source_table.name \in target_names
             THEN CreateMissing(Tail(source_tables), target_names, tdb, fault)
             ELSE IF fault = Failure("create", source_table.name)
             THEN [tdb |-> tdb, failed |-> fault, log |-> create]
             ELSE [CreateMissing(Tail(source_tables), target_names,
                                 CreateTable(tdb, source_table), fault)
                      EXCEPT !.log = create \o @]

\* SchemaRun with a slip: the target catalog is refreshed also after a create
\* that failed.
SchemaRun_AlwaysRefresh(d, md, tables, fault) ==
    IF md["source"].none \/ md["target"].none
    THEN [db |-> d, metadata |-> md, ok |-> FALSE, failed |-> StateError,
          log |-> << >>]
    ELSE LET source_tables == SelectTables(md["source"].tables, tables)
             target_tables == md["target"].tables
             made == CreateMissing(source_tables, CatNames(target_tables),
                                   d["target"], fault)
             d2 == [d EXCEPT !["target"] = made.tdb]
             refreshed == made.log \o << Step("reflect", "-") >>
         IN  IF fault.kind = "reflect_schema"
             THEN [db |-> d2, metadata |-> md, ok |-> FALSE, failed |-> fault,
                   log |-> refreshed]
             ELSE [db |-> d2,
                   metadata |-> [md EXCEPT !["target"].tables =
                                    Reflect(target_tables, made.tdb)],
                   ok |-> made.failed = NoFailure, failed |-> made.failed,
                   log |-> refreshed]

\* syncer.py 22-57, sync_schema, on the databases d and the catalogs md.
SchemaRun(d, md, tables, fault) ==
    IF md["source"].none \/ md["target"].none
    THEN [db |-> d, metadata |-> md, ok |-> FALSE, failed |-> StateError,
          log |-> << >>]
    ELSE LET source_tables == SelectTables(md["source"].tables, tables)
             target_tables == md["target"].tables
             made == CreateMissing(source_tables, CatNames(target_tables),
                                   d["target"], fault)
             d2 == [d EXCEPT !["target"] = made.tdb]
             refreshed == made.log \o << Step("reflect", "-") >>
         IN  IF made.failed # NoFailure
             THEN [db |-> d2, metadata |-> md, ok |-> FALSE,
                   failed |-> made.failed, log |-> made.log]
             ELSE IF fault.kind = "reflect_schema"
             THEN [db |-> d2, metadata |-> md, ok |-> FALSE, failed |-> fault,
                   log |-> refreshed]
             ELSE [db |-> d2,
                   metadata |-> [md EXCEPT !["target"].tables =
                                    Reflect(target_tables, made.tdb)],
                   ok |-> TRUE, failed |-> NoFailure, log |-> refreshed]

\* Truncate with a slip: the rows are kept.
Truncate_Keep(table) == table

\* syncer.py 156-157: DELETE FROM the table, committed.
Truncate(table) == [table EXCEPT !.rows = EmptyBag]

\* syncer.py 162-163: source_table.select() and fetchall(): the rows of the
\* database's table, each a tuple of the values of the catalog's columns in
\* the catalog's column order.
FetchAll(source_cols, table) ==
    BagMap([r \in DOMAIN table.rows |->
               [i \in 1..Len(source_cols) |-> r[source_cols[i].name]]],
           table.rows)

\* RowDict with a slip: the value of the next column is taken.
RowDict_OffByOne(source_cols, row) ==
    [n \in ColNames(source_cols) |->
        row[((CHOOSE i \in 1..Len(source_cols) : source_cols[i].name = n)
                % Len(source_cols)) + 1]]

\* syncer.py 174-176: row_dict[column.name] = row[i].
RowDict(source_cols, row) ==
    [n \in ColNames(source_cols) |->
        row[CHOOSE i \in 1..Len(source_cols) : source_cols[i].name = n]]

\* syncer.py 172-177: data_to_insert.
DataToInsert(source_cols, rows) ==
    BagMap([row \in DOMAIN rows |-> RowDict(source_cols, row)], rows)

\* The row the database stores for an inserted dictionary: a column that is
\* given no value takes its DDL default, or NULL.
StoredRow(cols, row_dict) ==
    [n \in ColNames(cols) |->
        IF n \in DOMAIN row_dict THEN row_dict[n]
        ELSE LET c == cols[CHOOSE k \in 1..Len(cols) : cols[k].name = n]
             IN  IF c.server_default # None THEN c.server_default ELSE Null]

PrimaryKey(cols) == {cols[k].name : k \in {j \in 1..Len(cols) : cols[j].primary_key}}

\* The rows violate a NOT NULL or the PRIMARY KEY constraint of the table.
ViolatesConstraint(cols, rows) ==
    \/ \E r \in DOMAIN rows : \E k \in 1..Len(cols) :
          ~cols[k].nullable /\ r[cols[k].name] = Null
    \/ /\ PrimaryKey(cols) # {}
       /\ LET keys == BagMap([r \in DOMAIN rows |->
                                 [n \in PrimaryKey(cols) |-> r[n]]], rows)
          IN  \E key \in DOMAIN keys : keys[key] > 1

\* syncer.py 179-180: target_table.insert() executed with all the rows and
\* committed once.  It raises (and writes nothing) when a key of the rows is
\* no column of the target table, in the catalog or in the database, when the
\* table is gone, or when a constraint is violated.
InsertRaises(target_cols, table, data) ==
    \/ ~table.exists
    \/ \E row_dict \in DOMAIN data :
          ~(DOMAIN row_dict \subseteq ColNames(target_cols))
          \/ ~(DOMAIN row_dict \subseteq ColNames(table.cols))
    \/ ViolatesConstraint(table.cols,
          table.rows (+) BagMap([x \in DOMAIN data |-> StoredRow(table.cols, x)],
                               data))

\* Insert with a slip: the rows are written twice.
Insert_Twice(table, data) ==
    [table EXCEPT !.rows =
        (table.rows (+) BagMap([x \in DOMAIN data |-> StoredRow(table.cols, x)],
                              data))
           (+) BagMap([x \in DOMAIN data |-> StoredRow(table.cols, x)], data)]

Insert(table, data) ==
    [table EXCEPT !.rows =
        table.rows (+) BagMap([x \in DOMAIN data |-> StoredRow(table.cols, x)],
                             data)]

\* syncer.py 162: the select raises when the table, or a column of the
\* catalog's table, is not in the source database.
SelectRaises(source_cols, table) ==
    ~table.exists \/ ~(ColNames(source_cols) \subseteq ColNames(table.cols))

\* SyncTableData with a slip: the source is read before the target is
\* truncated.
SyncTableData_ReadFirst(source_table, target_table, stable, ttable, truncate_target, fault) ==
    LET t == source_table.name
        truncRaises == truncate_target
                       /\ (fault = Failure("truncate", t) \/ ~ttable.exists)
        cleared == IF truncate_target THEN Truncate(ttable) ELSE ttable
        readRaises == fault = Failure("read", t)
                      \/ SelectRaises(source_table.cols, stable)
        rows == FetchAll(source_table.cols, stable)
        data_to_insert == DataToInsert(source_table.cols, rows)
        read == << Step("read", t) >>
        deleted == IF truncate_target THEN read \o << Step("truncate", t) >> ELSE read
        inserted == deleted \o << Step("insert", t) >>
    IN  IF readRaises
        THEN [table |-> ttable, failed |-> Failure("read", t), log |-> read]
        ELSE IF truncRaises
        THEN [table |-> ttable, failed |-> Failure("truncate", t), log |-> deleted]
        ELSE IF DOMAIN rows = {}
        THEN [table |-> cleared, failed |-> NoFailure, log |-> deleted]
        ELSE IF fault = Failure("insert", t)
                \/ InsertRaises(target_table.cols, cleared, data_to_insert)
        THEN [table |-> cleared, failed |-> Failure("insert", t), log |-> inserted]
        ELSE [table |-> Insert(cleared, data_to_insert), failed |-> NoFailure,
              log |-> inserted]

\* SyncTableData with a slip: delete and insert are one transaction, which a
\* failed read or insert rolls back.
SyncTableData_Atomic(source_table, target_table, stable, ttable, truncate_target, fault) ==
    LET t == source_table.name
        truncRaises == truncate_target
                       /\ (fault = Failure("truncate", t) \/ ~ttable.exists)
        cleared == IF truncate_target THEN Truncate(ttable) ELSE ttable
        readRaises == fault = Failure("read", t)
                      \/ SelectRaises(source_table.cols, stable)
        rows == FetchAll(source_table.cols, stable)
        data_to_insert == DataToInsert(source_table.cols, rows)
        deleted == IF truncate_target THEN << Step("truncate", t) >> ELSE << >>
        read == deleted \o << Step("read", t) >>
        inserted == read \o << Step("insert", t) >>
    IN  IF truncRaises
        THEN [table |-> ttable, failed |-> Failure("truncate", t), log |-> deleted]
        ELSE IF readRaises
        THEN [table |-> ttable, failed |-> Failure("read", t), log |-> read]
        ELSE IF DOMAIN rows = {}
        THEN [table |-> cleared, failed |-> NoFailure, log |-> read]
        ELSE IF fault = Failure("insert", t)
                \/ InsertRaises(target_table.cols, cleared, data_to_insert)
        THEN [table |-> ttable, failed |-> Failure("insert", t), log |-> inserted]
        ELSE [table |-> Insert(cleared, data_to_insert), failed |-> NoFailure,
              log |-> inserted]

\* SyncTableData with a slip: every row is committed by itself, so that the
\* rows written before the insert failed stay.
SyncTableData_RowByRow(source_table, target_table, stable, ttable, truncate_target, fault) ==
    LET t == source_table.name
        truncRaises == truncate_target
                       /\ (fault = Failure("truncate", t) \/ ~ttable.exists)
        cleared == IF truncate_target THEN Truncate(ttable) ELSE ttable
        readRaises == fault = Failure("read", t)
                      \/ SelectRaises(source_table.cols, stable)
        rows == FetchAll(source_table.cols, stable)
        data_to_insert == DataToInsert(source_table.cols, rows)
        first == CHOOSE x \in DOMAIN data_to_insert : TRUE
        deleted == IF truncate_target THEN << Step("truncate", t) >> ELSE << >>
        read == deleted \o << Step("read", t) >>
        inserted == read \o << Step("insert", t) >>
    IN  IF truncRaises
        THEN [table |-> ttable, failed |-> Failure("truncate", t), log |-> deleted]
        ELSE IF readRaises
        THEN [table |-> cleared, failed |-> Failure("read", t), log |-> read]
        ELSE IF DOMAIN rows = {}
        THEN [table |-> cleared, failed |-> NoFailure, log |-> read]
        ELSE IF fault = Failure("insert", t)
                \/ InsertRaises(target_table.cols, cleared, data_to_insert)
        THEN [table |-> IF cleared.exists
                        THEN Insert(cleared, SetToBag({first})) ELSE cleared,
              failed |-> Failure("insert", t), log |-> inserted]
        ELSE [table |-> Insert(cleared, data_to_insert), failed |-> NoFailure,
              log |-> inserted]

\* syncer.py 149-186, _sync_table_data: the target table afterwards, and the
\* step that raised.
SyncTableData(source_table, target_table, stable, ttable, truncate_target, fault) ==
    LET t == source_table.name
        truncRaises == truncate_target
                       /\ (fault = Failure("truncate", t) \/ ~ttable.exists)
        cleared == IF truncate_target THEN Truncate(ttable) ELSE ttable
        readRaises == fault = Failure("read", t)
                      \/ SelectRaises(source_table.cols, stable)
        rows == FetchAll(source_table.cols, stable)
        data_to_insert == DataToInsert(source_table.cols, rows)
        deleted == IF truncate_target THEN << Step("truncate", t) >> ELSE << >>
        read == deleted \o << Step("read", t) >>
        inserted == read \o << Step("insert", t) >>
    IN  IF truncRaises
        THEN [table |-> ttable, failed |-> Failure("truncate", t), log |-> deleted]
        ELSE IF readRaises
        THEN [table |-> cleared, failed |-> Failure("read", t), log |-> read]
        ELSE IF DOMAIN rows = {}
        THEN [table |-> cleared, failed |-> NoFailure, log |-> read]
        ELSE IF fault = Failure("insert", t)
                \/ InsertRaises(target_table.cols, cleared, data_to_insert)
        THEN [table |-> cleared, failed |-> Failure("insert", t), log |-> inserted]
        ELSE [table |-> Insert(cleared, data_to_insert), failed |-> NoFailure,
              log |-> inserted]

\* TransferAll with a slip: the failure of a table is swallowed and the loop
\* goes on.
RECURSIVE TransferAll_Swallow(_, _, _, _, _, _)
TransferAll_Swallow(source_tables, target_tables, sdb, tdb, truncate_target, fault) ==
    IF source_tables = << >> THEN [tdb |-> tdb, failed |-> NoFailure, log |-> << >>]
    ELSE LET source_table == Head(source_tables)
             t == source_table.name
         IN  IF t \notin CatNames(target_tables)
             THEN [TransferAll_Swallow(Tail(source_tables), target_tables, sdb,
                                       tdb, truncate_target, fault)
                      EXCEPT !.log = << Step("skip", t) >> \o @]
             ELSE LET done == SyncTableData(source_table,
                                  CatEntry(target_tables, t), sdb[t], tdb[t],
                                  truncate_target, fault)
                  IN  [TransferAll_Swallow(Tail(source_tables), target_tables,
                                           sdb, [tdb EXCEPT ![t] = done.table],
                                           truncate_target, fault)
                          EXCEPT !.log = done.log \o @]

\* TransferAll with a slip: after the failure of a table the loop goes on
\* with the next table, and the failure is reported at the end.
RECURSIVE TransferAll_Continue(_, _, _, _, _, _)
TransferAll_Continue(source_tables, target_tables, sdb, tdb, truncate_target, fault) ==
    IF source_tables = << >> THEN [tdb |-> tdb, failed |-> NoFailure, log |-> << >>]
    ELSE LET source_table == Head(source_tables)
             t == source_table.name
         IN  IF t \notin CatNames(target_tables)
             THEN [TransferAll_Continue(Tail(source_tables), target_tables, sdb,
                                        tdb, truncate_target, fault)
                      EXCEPT !.log = << Step("skip", t) >> \o @]
             ELSE LET done == SyncTableData(source_table,
                                  CatEntry(target_tables, t), sdb[t], tdb[t],
                                  truncate_target, fault)
                      rest == TransferAll_Continue(Tail(source_tables),
                                  target_tables, sdb,
                                  [tdb EXCEPT ![t] = done.table],
                                  truncate_target, fault)
                  IN  IF done.failed # NoFailure
                      THEN [rest EXCEPT !.log = done.log \o @,
                                        !.failed = done.failed]
                      ELSE [rest EXCEPT !.log = done.log \o @]

RECURSIVE TransferAll(_, _, _, _, _, _)
\* syncer.py 81-88: the loop of sync_data over the selected source tables.
TransferAll(source_tables, target_tables, sdb, tdb, truncate_target, fault) ==
    IF source_tables = << >> THEN [tdb |-> tdb, failed |-> NoFailure, log |-> << >>]
    ELSE LET source_table == Head(source_tables)
             t == source_table.name
         IN  IF t \notin CatNames(target_tables)
             THEN [TransferAll(Tail(source_tables), target_tables, sdb, tdb,
                               truncate_target, fault)
                      EXCEPT !.log = << Step("skip", t) >> \o @]
             ELSE LET done == SyncTableData(source_table,
                                  CatEntry(target_tables, t), sdb[t], tdb[t],
                                  truncate_target, fault)
                      tdb2 == [tdb EXCEPT ![t] = done.table]
                  IN  IF done.failed # NoFailure
                      THEN [tdb |-> tdb2, failed |-> done.failed, log |-> done.log]
                      ELSE [TransferAll(Tail(source_tables), target_tables, sdb,
                                        tdb2, truncate_target, fault)
                               EXCEPT !.log = done.log \o @]

\* DataRun with a slip: a failed call rolls the target back.
DataRun_Rollback(d, md, tables, truncate_target, fault) ==
    IF md["source"].none \/ md["target"].none
    THEN [db |-> d, metadata |-> md, ok |-> FALSE, failed |-> StateError,
          log |-> << >>]
    ELSE IF fault.kind = "reflect_data"
    THEN [db |-> d, metadata |-> md, ok |-> FALSE, failed |-> fault,
          log |-> << Step("reflect", "-") >>]
    ELSE LET target_tables == Reflect(md["target"].tables, d["target"])
             md2 == [md EXCEPT !["target"].tables = target_tables]
             source_tables == SelectTables(md["source"].tables, tables)
             moved == TransferAll(source_tables, target_tables, d["source"],
                                  d["target"], truncate_target, fault)
         IN  [db |-> IF moved.failed = NoFailure
                     THEN [d EXCEPT !["target"] = moved.tdb] ELSE d,
              metadata |-> md2,
              ok |-> moved.failed = NoFailure, failed |-> moved.failed,
              log |-> << Step("reflect", "-") >> \o moved.log]

\* DataRun with a slip: the target catalog is not refreshed first.
DataRun_NoRefresh(d, md, tables, truncate_target, fault) ==
    IF md["source"].none \/ md["target"].none
    THEN [db |-> d, metadata |-> md, ok |-> FALSE, failed |-> StateError,
          log |-> << >>]
    ELSE LET target_tables == md["target"].tables
             source_tables == SelectTables(md["source"].tables, tables)
             moved == TransferAll(source_tables, target_tables, d["source"],
                                  d["target"], truncate_target, fault)
         IN  [db |-> [d EXCEPT !["target"] = moved.tdb], metadata |-> md,
              ok |-> moved.failed = NoFailure, failed |-> moved.failed,
              log |-> moved.log]

\* DataRun with a slip: the source catalog is refreshed as well.
DataRun_RefreshSource(d, md, tables, truncate_target, fault) ==
    IF md["source"].none \/ md["target"].none
    THEN [db |-> d, metadata |-> md, ok |-> FALSE, failed |-> StateError,
          log |-> << >>]
    ELSE IF fault.kind = "reflect_data"
    THEN [db |-> d, metadata |-> md, ok |-> FALSE, failed |-> fault,
          log |-> << Step("reflect", "-") >>]
    ELSE LET target_tables == Reflect(md["target"].tables, d["target"])
             source_cat == Reflect(md["source"].tables, d["source"])
             md2 == [md EXCEPT !["target"].tables = target_tables,
                               !["source"].tables = source_cat]
             source_tables == SelectTables(source_cat, tables)
             moved == TransferAll(source_tables, target_tables, d["source"],
                                  d["target"], truncate_target, fault)
         IN  [db |-> [d EXCEPT !["target"] = moved.tdb], metadata |-> md2,
              ok |-> moved.failed = NoFailure, failed |-> moved.failed,
              log |-> << Step("reflect", "-") >> \o moved.log]

\* syncer.py 59-94, sync_data, on the databases d and the catalogs md.
DataRun(d, md, tables, truncate_target, fault) ==
    IF md["source"].none \/ md["target"].none
    THEN [db |-> d, metadata |-> md, ok |-> FALSE, failed |-> StateError,
          log |-> << >>]
    ELSE IF fault.kind = "reflect_data"
    THEN [db |-> d, metadata |-> md, ok |-> FALSE, failed |-> fault,
          log |-> << Step("reflect", "-") >>]
    ELSE LET target_tables == Reflect(md["target"].tables, d["target"])
             md2 == [md EXCEPT !["target"].tables = target_tables]
             source_tables == SelectTables(md["source"].tables, tables)
             moved == TransferAll(source_tables, target_tables, d["source"],
                                  d["target"], truncate_target, fault)
         IN  [db |-> [d EXCEPT !["target"] = moved.tdb], metadata |-> md2,
              ok |-> moved.failed = NoFailure, failed |-> moved.failed,
              log |-> << Step("reflect", "-") >> \o moved.log]

\* AllRun with a slip: the data sync runs although the schema sync failed.
AllRun_NoShortCircuit(d, md, tables, truncate_target, fault) ==
    LET schema == SchemaRun(d, md, tables, fault)
        data == DataRun(schema.db, schema.metadata, tables, truncate_target, fault)
    IN  IF ~schema.ok
        THEN [data EXCEPT !.ok = FALSE, !.failed = schema.failed,
                          !.log = schema.log \o @]
        ELSE [data EXCEPT !.log = schema.log \o @]

\* syncer.py 96-121, sync_all: sync_schema, then sync_data unless it failed.
AllRun(d, md, tables, truncate_target, fault) ==
    LET schema == SchemaRun(d, md, tables, fault)
    IN  IF ~schema.ok THEN schema
        ELSE [DataRun(schema.db, schema.metadata, tables, truncate_target, fault)
                 EXCEPT !.log = schema.log \o @]

(* -------------------------------------------------------------- state *)

VARIABLES
    db,         \* db[e][t]: table t of the database of endpoint e
    engine,     \* engine[e]: None, "open" or "disposed" (DatabaseConnection.engine)
    metadata,   \* metadata[e]: DatabaseConnection.metadata
    connected,  \* connected[e]: a connect() of endpoint e has succeeded
    last,       \* the last call: its arguments, its result, the state before it
    prev        \* what the call before the last one was

vars == << db, engine, metadata, connected, last, prev >>

EmptyDatabase == [t \in TableNames |-> NoTable]

\* The state a call started from; of the calls that are no sync call, nothing
\* is kept.
NoPre == [db |-> [e \in Endpoints |-> EmptyDatabase],
          metadata |-> [e \in Endpoints |-> NoMetaData]]

\* The classes of the exception a failure comes as: get_tables raises a
\* RuntimeError on an endpoint without metadata, the reflect of sync_data an
\* AttributeError (None has no reflect), the database an SQLAlchemyError.
ExceptionClasses(failed) ==
    CASE failed.kind = "none" -> {}
      [] failed.kind = "not_connected" -> {"RuntimeError", "AttributeError"}
      [] OTHER -> {"SQLAlchemyError"}

\* The class of an exception and the classes it derives from.
Bases(c) == {c, "Exception", "BaseException"}

\* Handled with a slip: the clause reads "except SQLAlchemyError".
Handled_SQLAlchemyErrorOnly(failed) ==
    \A c \in ExceptionClasses(failed) : "SQLAlchemyError" \in Bases(c)

\* syncer.py 55-57, 92-94: "except Exception" around the whole body of
\* sync_schema and of sync_data.
Handled(failed) ==
    \A c \in ExceptionClasses(failed) : "Exception" \in Bases(c)

\* A call: escaped tells that its failure left it as an exception, log the
\* steps it went into, in their order.
Call(op, e, tables, truncate_target, ok, failed, log, pre) ==
    [op |-> op, endpoint |-> e, tables |-> tables, truncate |-> truncate_target,
     ok |-> ok, failed |-> failed, escaped |-> ~Handled(failed), log |-> log,
     pre |-> pre]

Other(op, e, ok) == Call(op, e, NoFilter, FALSE, ok, NoFailure, << >>, NoPre)

\* No call is pending: the caller has taken note of the last result.
NoCall == Other("-", "-", TRUE)

SyncOps == {"sync_schema", "sync_data", "sync_all"}

\* What is kept of the call before the last one.
NoPrev == [op |-> "-", tables |-> NoFilter, ok |-> FALSE, empty_target |-> FALSE]

Summary(call) ==
    IF call.op \in SyncOps
    THEN [op |-> call.op, tables |-> call.tables, ok |-> call.ok,
          empty_target |-> Available(call.pre.db["target"]) = {}]
    ELSE NoPrev

\* The caller is between two calls.
Idle == last.op \notin SyncOps

\* The caller runs sync_schema or sync_all a second time, right after it
\* succeeded, on the same tables.
Again(op, tables) ==
    op \in {"sync_schema", "sync_all"} /\ last.op = op /\ last.ok /\ last.tables = tables

\* database.py 17-21, __init__: two databases, no table yet, nothing connected.
Init ==
    /\ db = [e \in Endpoints |-> EmptyDatabase]
    /\ engine = [e \in Endpoints |-> None]
    /\ metadata = [e \in Endpoints |-> NoMetaData]
    /\ connected = [e \in Endpoints |-> FALSE]
    /\ last = NoCall
    /\ prev = NoPrev

\* tests/test_syncdb.py 60-71, setUp: both endpoints connected to databases
\* that hold no table yet.
InitConnected ==
    /\ db = [e \in Endpoints |-> EmptyDatabase]
    /\ engine = [e \in Endpoints |-> "open"]
    /\ metadata = [e \in Endpoints |-> [none |-> FALSE, tables |-> << >>]]
    /\ connected = [e \in Endpoints |-> TRUE]
    /\ last = NoCall
    /\ prev = NoPrev

(* ------------------------------------------------------ the connection *)

\* database.py 23-33, connect: create_engine raises on a malformed URL;
\* reflect raises when the database cannot be reached, after engine and
\* metadata have been assigned.
ConnectRun(e, outcome) ==
    IF outcome = "bad_url"
    THEN [engine |-> engine[e], metadata |-> metadata[e], ok |-> FALSE]
    ELSE IF outcome = "unreachable"
    THEN [engine |-> "open", metadata |-> [none |-> FALSE, tables |-> << >>],
          ok |-> FALSE]
    ELSE [engine |-> "open",
          metadata |-> [none |-> FALSE, tables |-> Reflect(<< >>, db[e])],
          ok |-> TRUE]

Connect(e, outcome) ==
    LET r == ConnectRun(e, outcome)
    IN  /\ engine' = [engine EXCEPT ![e] = r.engine]
        /\ metadata' = [metadata EXCEPT ![e] = r.metadata]
        /\ connected' = [connected EXCEPT ![e] = @ \/ r.ok]
        /\ last' = Other("connect", e, r.ok)
        /\ prev' = NoPrev
        /\ UNCHANGED db

\* database.py 35-39, get_tables: raises when self.metadata is None.
GetTablesRaises(e) == metadata[e].none

GetTables(e) ==
    /\ last' = Other("get_tables", e, ~GetTablesRaises(e))
    /\ prev' = NoPrev
    /\ UNCHANGED << db, engine, metadata, connected >>

\* database.py 41-45, close: disposes of the engine when there is one.
Close(e) ==
    /\ engine' = [engine EXCEPT ![e] = IF @ = None THEN None ELSE "disposed"]
    /\ last' = Other("close", e, TRUE)
    /\ prev' = NoPrev
    /\ UNCHANGED << db, metadata, connected >>

(* ------------------------------------------------------ the environment *)

\* tests/test_syncdb.py 95, 106: the caller refreshes the catalog of an endpoint.
CallerReflect(e) ==
    /\ Idle
    /\ ~metadata[e].none
    /\ metadata' = [metadata EXCEPT ![e].tables = Reflect(@, db[e])]
    /\ last' = NoCall
    /\ prev' = NoPrev
    /\ UNCHANGED << db, engine, connected >>

RECURSIVE SampleRows(_, _)
\* The first k rows of a source table.
SampleRows(cols, k) ==
    IF k = 0 THEN EmptyBag
    ELSE SampleRows(cols, k - 1) (+) SetToBag({SampleRow(cols, k)})

\* tests/test_syncdb.py 76-95, _create_sample_table: a table with k rows is
\* created in the source, and the source catalog is refreshed.
CreateSampleTable(t, cols, k) ==
    /\ Idle
    /\ ~db["source"][t].exists
    /\ ~metadata["source"].none
    /\ LET d == [db EXCEPT !["source"][t] =
                    [NewTable(cols) EXCEPT !.rows = SampleRows(cols, k)]]
       IN  /\ db' = d
           /\ metadata' = [metadata EXCEPT !["source"].tables =
                              Reflect(@, d["source"])]
    /\ last' = NoCall
    /\ prev' = NoPrev
    /\ UNCHANGED << engine, connected >>

\* The numbers of rows a sample table is created with.
SampleSizes(t) == IF t = "orders" THEN {1} ELSE 0..MaxRows

\* Someone else creates a table in a database.
ExternalCreate(e, t, cols) ==
    /\ Idle
    /\ ~db[e][t].exists
    /\ db' = [db EXCEPT ![e][t] = NewTable(cols)]
    /\ last' = NoCall
    /\ prev' = NoPrev
    /\ UNCHANGED << engine, metadata, connected >>

\* Someone else drops a table of a database.
ExternalDrop(e, t) ==
    /\ Idle
    /\ db[e][t].exists
    /\ db' = [db EXCEPT ![e][t] = NoTable]
    /\ last' = NoCall
    /\ prev' = NoPrev
    /\ UNCHANGED << engine, metadata, connected >>

\* Someone else inserts a row into a table that holds none.
ExternalInsert(e, t, row) ==
    /\ Idle
    /\ db[e][t].exists
    /\ db[e][t].rows = EmptyBag
    /\ ~ViolatesConstraint(db[e][t].cols, db[e][t].rows (+) SetToBag({row}))
    /\ db' = [db EXCEPT ![e][t].rows = @ (+) SetToBag({row})]
    /\ last' = NoCall
    /\ prev' = NoPrev
    /\ UNCHANGED << engine, metadata, connected >>

\* The rows an external insert may write into a table of the target: rows
\* unrelated to the rows of the source.
ExternalRows(t) == {OldRow(db["target"][t].cols, 1)}

(* ------------------------------------------------------- the sync calls *)

\* No table of the target holds more than MaxRows rows.
WithinBounds(d) ==
    \A t \in TableNames : BagCardinality(d["target"][t].rows) <= MaxRows

Returned(op, tables, truncate_target, r) ==
    /\ Idle \/ Again(op, tables)
    /\ WithinBounds(r.db)
    /\ db' = r.db
    /\ metadata' = r.metadata
    /\ last' = Call(op, "-", tables, truncate_target, r.ok, r.failed, r.log,
                    [db |-> db, metadata |-> metadata])
    /\ prev' = Summary(last)
    /\ UNCHANGED << engine, connected >>

SyncSchema(tables, fault) ==
    Returned("sync_schema", tables, FALSE, SchemaRun(db, metadata, tables, fault))

SyncData(tables, truncate_target, fault) ==
    Returned("sync_data", tables, truncate_target,
             DataRun(db, metadata, tables, truncate_target, fault))

SyncAll(tables, truncate_target, fault) ==
    Returned("sync_all", tables, truncate_target,
             AllRun(db, metadata, tables, truncate_target, fault))

\* cli.py 99-103: the caller takes note of the result of the call.
Observe ==
    /\ ~Idle
    /\ last' = NoCall
    /\ prev' = NoPrev
    /\ UNCHANGED << db, engine, metadata, connected >>

Next ==
    \/ \E t \in TableNames : \E k \in SampleSizes(t) :
          CreateSampleTable(t, IF t = "orders" THEN OrdersCols ELSE UsersCols, k)
    \/ \E t \in TableNames : \E cols \in Layouts("target", t) :
          ExternalCreate("target", t, cols)
    \/ \E t \in TableNames : ExternalDrop("target", t)
    \/ \E row \in ExternalRows("users") : ExternalInsert("target", "users", row)
    \/ CallerReflect("target")
    \/ \E tables \in Filters, fault \in Faults : SyncSchema(tables, fault)
    \/ \E tables \in Filters, truncate_target \in BOOLEAN, fault \in Faults :
          SyncData(tables, truncate_target, fault)
    \/ \E tables \in Filters, truncate_target \in BOOLEAN, fault \in Faults :
          SyncAll(tables, truncate_target, fault)
    \/ Observe

Spec == InitConnected /\ [][Next]_vars

(* The life of the two connections: nothing is connected at first, a connect
   may fail in both ways, and the sync calls run whatever the state of the
   endpoints. *)
NextConn ==
    \/ \E e \in Endpoints, outcome \in {"ok", "bad_url", "unreachable"} :
          Connect(e, outcome)
    \/ \E e \in Endpoints : GetTables(e)
    \/ \E e \in Endpoints : Close(e)
    \/ \E e \in Endpoints : ExternalCreate(e, "users", UsersCols)
    \/ \E e \in Endpoints : CallerReflect(e)
    \/ \E fault \in Faults : SyncSchema(NoFilter, fault)
    \/ \E truncate_target \in BOOLEAN, fault \in Faults :
          SyncData(NoFilter, truncate_target, fault)
    \/ \E truncate_target \in BOOLEAN, fault \in Faults :
          SyncAll(NoFilter, truncate_target, fault)
    \/ Observe

SpecConn == Init /\ [][NextConn]_vars

(* The source database changes behind the snapshot: tables are created in it
   and filled without a refresh of the source catalog, and the caller may
   refresh that catalog between two calls. *)
SnapshotFaults ==
    {NoFault, Failure("create", "users"), Failure("insert", "orders")}

NextSnapshot ==
    \/ \E t \in TableNames :
          ExternalCreate("source", t, IF t = "orders" THEN OrdersCols ELSE UsersCols)
    \/ \E t \in TableNames :
          ExternalInsert("source", t, SampleRow(db["source"][t].cols, 1))
    \/ ExternalCreate("target", "users", UsersCols)
    \/ \E e \in Endpoints : CallerReflect(e)
    \/ \E tables \in Filters, fault \in SnapshotFaults : SyncSchema(tables, fault)
    \/ \E tables \in Filters, truncate_target \in BOOLEAN, fault \in SnapshotFaults :
          SyncData(tables, truncate_target, fault)
    \/ \E tables \in Filters, truncate_target \in BOOLEAN, fault \in SnapshotFaults :
          SyncAll(tables, truncate_target, fault)
    \/ Observe

SpecSnapshot == InitConnected /\ [][NextSnapshot]_vars

(* The calls with an empty list of tables (cli.py 70-74 passes the list of
   the configuration on; config.py 68 writes an empty one), next to the calls
   with no list and with a list of one name. *)
EmptyFilter == Filter({})

ListFilters == {NoFilter, EmptyFilter, Filter({"orders"})}

ListFaults ==
    {NoFault, Failure("create", "orders"), Failure("read", "users")}

NextLists ==
    \/ \E t \in TableNames :
          CreateSampleTable(t, IF t = "orders" THEN OrdersCols ELSE UsersCols, 1)
    \/ ExternalCreate("target", "users", UsersCols)
    \/ \E tables \in ListFilters, fault \in ListFaults : SyncSchema(tables, fault)
    \/ \E tables \in ListFilters, truncate_target \in BOOLEAN, fault \in ListFaults :
          SyncData(tables, truncate_target, fault)
    \/ \E tables \in ListFilters, truncate_target \in BOOLEAN, fault \in ListFaults :
          SyncAll(tables, truncate_target, fault)
    \/ Observe

SpecLists == InitConnected /\ [][NextLists]_vars

(* The syncer next to the caller's close() of the endpoints it handed over:
   the source holds sample tables, the target may hold a users table of its
   own with a row of its own, and either endpoint may be closed at any time. *)
LaneFaults ==
    {NoFault, Failure("create", "orders"), Failure("truncate", "users"),
     Failure("insert", "users")}

NextLanes ==
    \/ \E t \in TableNames :
          CreateSampleTable(t, IF t = "orders" THEN OrdersCols ELSE UsersCols, 1)
    \/ ExternalCreate("target", "users", UsersCols)
    \/ \E row \in ExternalRows("users") : ExternalInsert("target", "users", row)
    \/ \E e \in Endpoints : Idle /\ Close(e)
    \/ \E fault \in LaneFaults : SyncSchema(NoFilter, fault)
    \/ \E truncate_target \in BOOLEAN, fault \in LaneFaults :
          SyncData(NoFilter, truncate_target, fault)
    \/ \E truncate_target \in BOOLEAN, fault \in LaneFaults :
          SyncAll(NoFilter, truncate_target, fault)
    \/ Observe

SpecLanes == InitConnected /\ [][NextLanes]_vars

(* ------------------------------------------------- the command line *)

\* database.py 17-33, __init__ and connect on a connection of its own, to a
\* database that holds the given tables: create_engine raises on a malformed
\* URL, reflect raises when the database cannot be reached, after engine and
\* metadata have been assigned.
ConnectNew(tables, outcome) ==
    IF outcome = "bad_url"
    THEN [engine |-> None, metadata |-> NoMetaData, ok |-> FALSE]
    ELSE IF outcome = "unreachable"
    THEN [engine |-> "open", metadata |-> [none |-> FALSE, tables |-> << >>],
          ok |-> FALSE]
    ELSE [engine |-> "open",
          metadata |-> [none |-> FALSE, tables |-> Reflect(<< >>, tables)],
          ok |-> TRUE]

\* database.py 17-21: a connection connect() was never called on.
NeverConnected == [engine |-> None, metadata |-> NoMetaData, ok |-> FALSE]

\* database.py 41-45, close, on the engine eng: nothing without an engine;
\* a dispose that raises leaves the engine undisposed.
CloseRun(eng, raises) ==
    IF eng = None THEN [engine |-> None, raised |-> FALSE]
    ELSE IF raises THEN [engine |-> eng, raised |-> TRUE]
    ELSE [engine |-> "disposed", raised |-> FALSE]

\* cli.py 110-116, the finally clause: source_db.close() and target_db.close()
\* in one try block whose bare except passes; when the first close raises the
\* second is not run.  The log names the endpoint in the place of the table.
CleanUp(engines, close_raises) ==
    LET s == CloseRun(engines["source"], "source" \in close_raises)
        t == CloseRun(engines["target"], "target" \in close_raises)
    IN  IF s.raised
        THEN [engine |-> [engines EXCEPT !["source"] = s.engine],
              log |-> << Step("close", "source"), Step("raised", "source") >>]
        ELSE [engine |-> [source |-> s.engine, target |-> t.engine],
              log |-> << Step("close", "source"), Step("close", "target") >>
                      \o (IF t.raised THEN << Step("raised", "target") >>
                          ELSE << >>)]

\* cli.py 59-116, the sync command on the databases d: run is the outcome of
\* the sync operation, or of what kept the command from it; synced tells that
\* the command went into the sync operation; engine holds the engines of the
\* two connections the command made, as it leaves them.
CommandRun(d, configured, schema_only, data_only, tables, truncate_target, outcome, fault, close_raises) ==
    IF ~configured
    THEN [run |-> [db |-> d, metadata |-> [e \in Endpoints |-> NoMetaData],
                   ok |-> FALSE, failed |-> Failure("config", "-"),
                   log |-> << >>],
          synced |-> FALSE,
          engine |-> [e \in Endpoints |-> None],
          connected |-> [e \in Endpoints |-> FALSE],
          log |-> << >>]
    ELSE LET s == ConnectNew(d["source"], outcome["source"])
             t == IF s.ok THEN ConnectNew(d["target"], outcome["target"])
                  ELSE NeverConnected
             md == [source |-> s.metadata, target |-> t.metadata]
             fin == CleanUp([source |-> s.engine, target |-> t.engine],
                            close_raises)
             connects == << Step("connect", "source") >>
                         \o (IF s.ok THEN << Step("connect", "target") >>
                             ELSE << >>)
         IN  IF s.ok /\ t.ok
             THEN [run |-> IF schema_only THEN SchemaRun(d, md, tables, fault)
                           ELSE IF data_only
                           THEN DataRun(d, md, tables, truncate_target, fault)
                           ELSE AllRun(d, md, tables, truncate_target, fault),
                   synced |-> TRUE,
                   engine |-> fin.engine,
                   connected |-> [e \in Endpoints |-> TRUE],
                   log |-> connects \o << Step("sync", "-") >> \o fin.log]
             ELSE [run |-> [db |-> d, metadata |-> md, ok |-> FALSE,
                            failed |-> Failure("connect",
                                          IF s.ok THEN "target" ELSE "source"),
                            log |-> << >>],
                   synced |-> FALSE,
                   engine |-> fin.engine,
                   connected |-> [source |-> s.ok, target |-> t.ok],
                   log |-> connects \o fin.log]

\* cli.py 67, 99-108: the exit code of a command that ended as c: 0 after a
\* sync operation that returned true, 1 otherwise.
ExitCode(c) == IF c.synced /\ c.run.ok THEN 0 ELSE 1

SyncCommand(configured, schema_only, data_only, tables, truncate_target, outcome, fault, close_raises) ==
    \E c \in {CommandRun(db, configured, schema_only, data_only, tables,
                         truncate_target, outcome, fault, close_raises)} :
        /\ WithinBounds(c.run.db)
        /\ db' = c.run.db
        /\ engine' = c.engine
        /\ metadata' = c.run.metadata
        /\ connected' = c.connected
        /\ last' = Call("sync_command", "-", tables, truncate_target,
                        ExitCode(c) = 0, c.run.failed, c.log,
                        [db |-> db, metadata |-> NoPre.metadata])
        /\ prev' = NoPrev

\* The ways the two connects of a command end: the target is connected only
\* after the source.
Connects ==
    {[source |-> "ok", target |-> o] : o \in {"ok", "bad_url", "unreachable"}}

FailedConnects ==
    {[source |-> o, target |-> "ok"] : o \in {"bad_url", "unreachable"}}
    \cup {c \in Connects : c["target"] # "ok"}

CommandFaults == {NoFault, Failure("insert", "users")}

\* The closes that raise: none, the one of the source, the one of the target.
CloseFailures == {{}, {"source"}, {"target"}}

\* The runs of the command on two databases that others fill: without a
\* configured source and target, with a connect that fails, and with both
\* endpoints connected.
NextCli ==
    \/ \E t \in TableNames :
          ExternalCreate("source", t, IF t = "orders" THEN OrdersCols ELSE UsersCols)
    \/ \E t \in TableNames :
          ExternalInsert("source", t, SampleRow(db["source"][t].cols, 1))
    \/ ExternalCreate("target", "users", UsersCols)
    \/ SyncCommand(FALSE, FALSE, FALSE, NoFilter, FALSE,
                   [e \in Endpoints |-> "ok"], NoFault, {})
    \/ \E outcome \in FailedConnects, close_raises \in CloseFailures :
          SyncCommand(TRUE, FALSE, FALSE, NoFilter, FALSE, outcome, NoFault,
                      close_raises)
    \/ \E schema_only, data_only, truncate_target \in BOOLEAN,
          fault \in CommandFaults, close_raises \in CloseFailures :
          SyncCommand(TRUE, schema_only, data_only, NoFilter, truncate_target,
                      [e \in Endpoints |-> "ok"], fault, close_raises)

SpecCli == Init /\ [][NextCli]_vars

(* ------------------------------------------------------------- the claims *)

\* The state the last sync call started from, and what it selected there.
Pre == last.pre

Selected == CatNames(SelectTables(Pre.metadata["source"].tables, last.tables))

SourceCols(t) == CatEntry(Pre.metadata["source"].tables, t).cols

TargetCat == metadata["target"].tables

PreTargetCat == Pre.metadata["target"].tables

\* Two column lists with the same names in the same order and the same
\* nullable and primary-key flag per column.
SameColumns(a, b) ==
    /\ Len(a) = Len(b)
    /\ \A k \in 1..Len(a) :
          /\ a[k].name = b[k].name
          /\ a[k].nullable = b[k].nullable
          /\ a[k].primary_key = b[k].primary_key

\* C1 (as claimed): after sync_schema() returns true, every selected source
\* table that was absent from the target catalog at call time is in the
\* refreshed target catalog with the column names, order, nullable and
\* primary-key flags of the source table.
C1_MissingTablesCreated ==
    (last.op = "sync_schema" /\ last.ok) =>
        \A t \in Selected \ CatNames(PreTargetCat) :
            /\ t \in CatNames(TargetCat)
            /\ SameColumns(CatEntry(TargetCat, t).cols, SourceCols(t))

\* C1 (amended): the same, for the tables that were absent from the target
\* catalog and from the target database at call time.
C1_MissingTablesCreated_Amended ==
    (last.op = "sync_schema" /\ last.ok) =>
        \A t \in (Selected \ CatNames(PreTargetCat))
                    \ Available(Pre.db["target"]) :
            /\ t \in CatNames(TargetCat)
            /\ SameColumns(CatEntry(TargetCat, t).cols, SourceCols(t))
            /\ db["target"][t].exists
            /\ SameColumns(db["target"][t].cols, SourceCols(t))

\* C1 witness: a successful sync_schema() has created the users table, which
\* the target had neither in its catalog nor in its database.
C1_Witness ==
    /\ last.op = "sync_schema" /\ last.ok
    /\ "users" \in (Selected \ CatNames(PreTargetCat)) \ Available(Pre.db["target"])
    /\ "orders" \in CatNames(PreTargetCat)
    /\ db["target"]["users"].exists

\* The selected tables that are in the source catalog and in the target
\* catalog as sync_data refreshed it.
InBoth == Selected \cap CatNames(TargetCat)

\* The rows of a table, each cut down to the columns named.
Project(names, rows) ==
    BagMap([r \in DOMAIN rows |-> [n \in names |-> r[n]]], rows)

SourceRows(t) == Pre.db["source"][t].rows

\* Target table t holds as many rows as source table t, and the rows carry the
\* values of the source rows under the source's column names.
RowsMatch(t) ==
    /\ db["target"][t].exists
    /\ BagCardinality(db["target"][t].rows) = BagCardinality(SourceRows(t))
    /\ ColNames(SourceCols(t)) \subseteq ColNames(db["target"][t].cols)
    /\ Project(ColNames(SourceCols(t)), db["target"][t].rows)
          = Project(ColNames(SourceCols(t)), SourceRows(t))

\* C2 (as claimed): after sync_data() returns, every selected table that is in
\* both catalogs holds in the target the rows of the source, whatever it held
\* before and whatever the truncate flag.
C2_RowsCopied ==
    last.op = "sync_data" => \A t \in InBoth : RowsMatch(t)

\* C2 (amended): after sync_data() returns true, every selected table that is
\* in both catalogs, that the target database held at call time, and that was
\* truncated or held no row before the call holds in the target the rows of
\* the source.
C2_RowsCopied_Amended ==
    (last.op = "sync_data" /\ last.ok) =>
        \A t \in InBoth \cap Available(Pre.db["target"]) :
            (last.truncate \/ BagCardinality(Pre.db["target"][t].rows) = 0)
                => RowsMatch(t)

\* C2 witness: sync_data() without truncate has copied two rows of users into
\* an empty target table whose columns are in another order.
C2_Witness ==
    /\ last.op = "sync_data" /\ last.ok /\ ~last.truncate
    /\ "users" \in InBoth
    /\ BagCardinality(SourceRows("users")) = 2
    /\ db["target"]["users"].cols = LegacyUsersCols
    /\ RowsMatch("users")

\* C3: sync_schema() leaves every table of the target catalog as it was, in
\* the database and in the catalog, whatever it returns; and a sync_schema()
\* that runs right after a successful sync_schema() on the same tables changes
\* neither the target database nor a catalog.
C3_ExistingUntouchedAndIdempotent ==
    last.op = "sync_schema" =>
        /\ \A t \in CatNames(PreTargetCat) :
              /\ db["target"][t] = Pre.db["target"][t]
              /\ t \in CatNames(TargetCat)
              /\ CatEntry(TargetCat, t) = CatEntry(PreTargetCat, t)
        /\ (prev.op = "sync_schema" /\ prev.ok /\ prev.tables = last.tables)
              => (db = Pre.db /\ metadata = Pre.metadata)

\* C3 witness: a second sync_schema() right after one that created users in
\* an empty target; users is in the target catalog by then.
C3_Witness ==
    /\ last.op = "sync_schema" /\ last.ok
    /\ prev.op = "sync_schema" /\ prev.ok /\ prev.empty_target
    /\ "users" \in Selected \cap CatNames(PreTargetCat)
    /\ db["target"]["users"].exists

\* The last two calls were sync_all() on a target database without a table
\* and then sync_all(truncate_target=True) on the same tables.
RoundTrip ==
    /\ last.op = "sync_all" /\ last.truncate
    /\ prev.op = "sync_all" /\ prev.empty_target /\ prev.tables = last.tables

\* C4 (as claimed): after sync_all() on an empty target and then
\* sync_all(truncate_target=True), every selected table holds in the target
\* exactly the rows of the source, none of them twice.
C4_RoundTrip ==
    RoundTrip => \A t \in Selected : RowsMatch(t)

\* C4 (amended): the same, when both calls returned true.
C4_RoundTrip_Amended ==
    (RoundTrip /\ prev.ok /\ last.ok) => \A t \in Selected : RowsMatch(t)

\* C4 witness: both tables, users with two rows, have gone through a
\* successful round trip.
C4_Witness ==
    /\ RoundTrip /\ prev.ok /\ last.ok
    /\ Selected = TableNames
    /\ BagCardinality(SourceRows("users")) = 2
    /\ BagCardinality(db["target"]["users"].rows) = 2
    /\ BagCardinality(db["target"]["orders"].rows) = 1

\* The names of the filter of the last call that the source catalog knows.
Named == last.tables.names \cap CatNames(Pre.metadata["source"].tables)

\* The last call once more, from the state it started from, with the filter
\* cut down to the names the source knows.
Rerun(fault) ==
    CASE last.op = "sync_schema" ->
            SchemaRun(Pre.db, Pre.metadata, Filter(Named), fault)
      [] last.op = "sync_data" ->
            DataRun(Pre.db, Pre.metadata, Filter(Named), last.truncate, fault)
      [] OTHER ->
            AllRun(Pre.db, Pre.metadata, Filter(Named), last.truncate, fault)

\* C5: after a sync call with a non-empty filter F, every table whose name is
\* not in F or not in the source catalog is in the target database as it was
\* (not created, rows unchanged); the names of F the source does not know
\* change nothing: the call ends as it ends with F cut down to the known
\* names, and when no name is known it writes nothing and fails at most in a
\* catalog refresh.
C5_OnlyFilteredTables ==
    (last.op \in SyncOps /\ Truthy(last.tables)) =>
        /\ \A t \in TableNames \ Named : db["target"][t] = Pre.db["target"][t]
        /\ Named = {} =>
              /\ db = Pre.db
              /\ last.ok \/ last.failed.kind \in {"reflect_schema", "reflect_data"}
        /\ Named # {} =>
              \E fault \in {NoFault, last.failed} :
                 LET r == Rerun(fault)
                 IN  /\ r.db = db /\ r.metadata = metadata
                     /\ r.ok = last.ok /\ r.failed = last.failed

\* C5 witness: sync_all() with the filter {users, ghost} on a source that
\* holds users and orders has created and filled users in the target, and
\* orders is in no target table.
C5_Witness ==
    /\ last.op = "sync_all" /\ last.ok
    /\ last.tables = Filter({"users", "ghost"})
    /\ Named = {"users"}
    /\ "orders" \in CatNames(Pre.metadata["source"].tables)
    /\ ~Pre.db["target"]["users"].exists
    /\ BagCardinality(db["target"]["users"].rows) = 2
    /\ ~db["target"]["orders"].exists

\* Row r of a target table carries the values of a row of source table t.
FromSource(t, r) ==
    \E x \in DOMAIN SourceRows(t) :
        \A n \in ColNames(SourceCols(t)) \cap DOMAIN r : r[n] = x[n]

\* The selected tables that the target database held when the last call
\* started, with rows that are unrelated to the rows of the source.
Populated ==
    {t \in Selected \cap Available(Pre.db["target"]) :
        /\ BagCardinality(Pre.db["target"][t].rows) > 0
        /\ \A r \in DOMAIN Pre.db["target"][t].rows : ~FromSource(t, r)}

\* Target table t holds the rows of the source and none of the rows it held
\* before the call.
Replaced(t) ==
    /\ RowsMatch(t)
    /\ \A r \in DOMAIN Pre.db["target"][t].rows :
          r \notin DOMAIN db["target"][t].rows

\* C6 (as claimed): after sync_data(truncate_target=True), a selected target
\* table that held rows unrelated to the source holds exactly the rows of the
\* source (none when the source table is empty) and none of its old rows.
C6_TruncateReplaces ==
    (last.op = "sync_data" /\ last.truncate) => \A t \in Populated : Replaced(t)

\* C6 (amended): the same, when sync_data() returned true.
C6_TruncateReplaces_Amended ==
    (last.op = "sync_data" /\ last.truncate /\ last.ok) =>
        \A t \in Populated : Replaced(t)

\* C6 witness: sync_data(truncate_target=True) has replaced the old rows of
\* users by the two rows of the source.
C6_Witness ==
    /\ last.op = "sync_data" /\ last.truncate /\ last.ok
    /\ "users" \in Populated
    /\ BagCardinality(SourceRows("users")) = 2
    /\ Replaced("users")

\* The same with a source table that holds no row.
C6_WitnessZero ==
    /\ last.op = "sync_data" /\ last.truncate /\ last.ok
    /\ "users" \in Populated
    /\ BagCardinality(SourceRows("users")) = 0
    /\ Replaced("users")

\* The selected tables that the target database lacked when the last call
\* started.
Lacking == Selected \ Available(Pre.db["target"])

\* C7 (as claimed): sync_data() on a target that lacks a selected table T
\* skips T: T is not created, nothing is written to it, no failure comes from
\* it, and the call returns true unless another table failed.
C7_MissingTargetTableSkipped ==
    last.op = "sync_data" =>
        \A t \in Lacking :
            /\ ~db["target"][t].exists
            /\ last.failed.table # t
            /\ (last.failed = NoFailure) = last.ok

\* The same for the tables that the target catalog lacked as well: these the
\* loop of sync_data skips.
C7_SkippedWhenNotInCatalog ==
    last.op = "sync_data" =>
        \A t \in Lacking \ CatNames(PreTargetCat) :
            /\ ~db["target"][t].exists
            /\ last.failed.table # t
            /\ (last.failed = NoFailure) = last.ok

\* The last call ended as the run r ends.
EndedAs(r) ==
    /\ db = r.db /\ metadata = r.metadata
    /\ last.ok = r.ok /\ last.failed = r.failed

\* The last call failed in a step of the schema sync.
SchemaFailed == last.failed.kind \in {"create", "reflect_schema", "not_connected"}

\* C8: sync_all() ends as sync_schema() ends when that one fails, returning
\* false with no row of a target table deleted or inserted; and as sync_data()
\* with the same filter and truncate flag, run after the schema sync, ends
\* otherwise.
C8_SchemaThenData ==
    last.op = "sync_all" =>
        /\ \E fault \in {NoFault, last.failed} :
              LET schema == SchemaRun(Pre.db, Pre.metadata, last.tables, fault)
              IN  IF ~schema.ok THEN EndedAs(schema)
                  ELSE EndedAs(DataRun(schema.db, schema.metadata, last.tables,
                                       last.truncate, fault))
        /\ SchemaFailed =>
              /\ ~last.ok
              /\ \A t \in TableNames :
                    db["target"][t].rows = Pre.db["target"][t].rows

\* C8 witness: sync_all() failed creating users; orders, which the target
\* held without a row and the source with one, has received nothing.
C8_Witness ==
    /\ last.op = "sync_all" /\ ~last.ok
    /\ last.failed = Failure("create", "users")
    /\ "orders" \in Selected \cap CatNames(PreTargetCat)
    /\ Pre.db["target"]["orders"].exists
    /\ BagCardinality(SourceRows("orders")) = 1
    /\ BagCardinality(db["target"]["orders"].rows) = 0

\* The number of rows of target table t a successful data sync leaves: the
\* rows it held, unless truncated, and the rows of the source.
RowsExpected(t) ==
    (IF last.truncate THEN 0 ELSE BagCardinality(Pre.db["target"][t].rows))
        + BagCardinality(SourceRows(t))

\* C9: a sync call returns true exactly when no step of it failed, and false
\* after any failed create, truncate, read or insert.  When it returns true
\* the steps have been done: the schema sync has created every selected table
\* the target catalog lacked, and the data sync has written the rows of the
\* source into every selected table of the target catalog; a selected table
\* the target catalog lacks, and a source table without rows, do not make the
\* call fail.
C9_TrueIffAllStepsSucceeded ==
    last.op \in SyncOps =>
        /\ last.ok = (last.failed = NoFailure)
        /\ last.failed.kind \in {"create", "truncate", "read", "insert"}
              => (~last.ok /\ last.failed.table \in Selected)
        /\ (last.ok /\ last.op \in {"sync_schema", "sync_all"}) =>
              \A t \in Selected \ CatNames(PreTargetCat) : db["target"][t].exists
        /\ (last.ok /\ last.op \in {"sync_data", "sync_all"}) =>
              \A t \in InBoth :
                  /\ BagCardinality(db["target"][t].rows) = RowsExpected(t)
                  /\ BagCardinality(SourceRows(t)) > 0 => db["target"][t].exists

\* C9 witness: sync_data() has returned true with orders skipped, the target
\* catalog lacking it, and users, without a row in the source, left empty.
C9_Witness ==
    /\ last.op = "sync_data" /\ last.ok
    /\ "orders" \in Selected \ CatNames(TargetCat)
    /\ "users" \in InBoth
    /\ BagCardinality(SourceRows("users")) = 0
    /\ db["target"]["users"].exists

\* C10 (as claimed): get_tables() fails whenever no connect() has succeeded
\* on the endpoint, also after a connect() that failed; it returns no catalog
\* then.
C10_ReadOnlyAfterConnect ==
    (last.op = "get_tables" /\ ~connected[last.endpoint]) => ~last.ok


\* The tables the last call selected, in the order its loops took them, and
\* the ones its loops took before table t.
SelectedSeq == SelectTables(Pre.metadata["source"].tables, last.tables)

Earlier(t) ==
    {SelectedSeq[k].name : k \in {j \in 1..Len(SelectedSeq) :
        \E i \in (j + 1)..Len(SelectedSeq) : SelectedSeq[i].name = t}}

\* The last call failed in a step of table t of the schema loop, or of the
\* data loop.
FailedCreating(t) == last.failed = Failure("create", t)

FailedMoving(t) ==
    last.failed.table = t /\ last.failed.kind \in {"truncate", "read", "insert"}

\* C11: when a sync call fails at a table, the work it committed for the
\* tables its loop took before stays in the target: the tables the schema
\* loop created exist, and the tables the data loop went through hold the
\* rows they held (none after a truncation) and the rows of the source.
C11_NoRollbackAcrossTables ==
    last.op \in SyncOps =>
        \A n \in TableNames :
            /\ FailedCreating(n) =>
                  \A t \in Earlier(n) \ CatNames(PreTargetCat) :
                      db["target"][t].exists
            /\ (FailedMoving(n) /\ last.op = "sync_all") =>
                  \A t \in Selected \ CatNames(PreTargetCat) :
                      db["target"][t].exists
            /\ FailedMoving(n) =>
                  \A t \in Earlier(n) \cap CatNames(TargetCat) :
                      BagCardinality(db["target"][t].rows) = RowsExpected(t)

\* C11 witness: sync_data(truncate_target=True) failed inserting into orders
\* after it had replaced the old rows of users by the rows of the source.
C11_Witness ==
    /\ last.op = "sync_data" /\ last.truncate /\ ~last.ok
    /\ last.failed = Failure("insert", "orders")
    /\ "users" \in Earlier("orders") \cap Populated
    /\ BagCardinality(SourceRows("users")) > 0
    /\ Replaced("users")


\* C12: no failure leaves sync_schema, sync_data or sync_all as an exception;
\* every call that met a failure, also the catalog read on an endpoint that
\* was never connected, has returned false.
C12_NoExceptionEscapes ==
    last.op \in SyncOps =>
        /\ ~last.escaped
        /\ last.failed # NoFailure => ~last.ok
        /\ (\E e \in Endpoints : Pre.metadata[e].none) =>
              (last.failed = StateError /\ ~last.ok)

\* C12 witness: sync_all() on a target endpoint that was never connected (the
\* source is) has returned false.
C12_Witness ==
    /\ last.op = "sync_all" /\ ~last.ok /\ ~last.escaped
    /\ last.failed = StateError
    /\ ~Pre.metadata["source"].none /\ Pre.metadata["target"].none
    /\ connected["source"] /\ ~connected["target"]


\* The places of the log of the last call where it went into step k of table t.
Places(k, t) == {i \in 1..Len(last.log) : last.log[i] = Step(k, t)}

\* C13: in a data sync with truncate requested, the read of a table comes
\* right after the delete of its target rows, which is committed by then (a
\* call that fails in the read leaves the table empty); and a call whose
\* delete failed has gone into no read and no insert of the table, whose rows
\* are as they were.
C13_TruncateBeforeRead ==
    (last.op \in {"sync_data", "sync_all"} /\ last.truncate) =>
        \A t \in TableNames :
            /\ \A i \in Places("read", t) :
                  i > 1 /\ last.log[i - 1] = Step("truncate", t)
            /\ last.failed = Failure("read", t) =>
                  db["target"][t].rows = EmptyBag
            /\ last.failed = Failure("truncate", t) =>
                  /\ Places("read", t) = {} /\ Places("insert", t) = {}
                  /\ last.log[Len(last.log)] = Step("truncate", t)
                  /\ db["target"][t].rows = Pre.db["target"][t].rows

\* C13 witness: sync_data(truncate_target=True) failed in the delete of
\* users; the source rows were not read and the old rows of users are there.
C13_Witness ==
    /\ last.op = "sync_data" /\ last.truncate /\ ~last.ok
    /\ last.failed = Failure("truncate", "users")
    /\ "users" \in Populated
    /\ BagCardinality(SourceRows("users")) > 0
    /\ Places("truncate", "users") # {} /\ Places("read", "users") = {}
    /\ db["target"]["users"] = Pre.db["target"]["users"]


\* C14: when a data sync with truncate requested fails in the read or in the
\* insert of a table, it returns false and the target table exists without a
\* row: the rows it held are deleted and stay deleted.
C14_TruncateNotRestored ==
    (last.op \in {"sync_data", "sync_all"} /\ last.truncate) =>
        \A t \in TableNames :
            last.failed \in {Failure("read", t), Failure("insert", t)} =>
                /\ ~last.ok
                /\ Places("truncate", t) # {}
                /\ db["target"][t].exists
                /\ db["target"][t].rows = EmptyBag

\* C14 witness: sync_data(truncate_target=True) failed in the insert into
\* users, which held rows before the call and holds none now.
C14_Witness ==
    /\ last.op = "sync_data" /\ last.truncate /\ ~last.ok
    /\ last.failed = Failure("insert", "users")
    /\ BagCardinality(Pre.db["target"]["users"].rows) > 0
    /\ BagCardinality(SourceRows("users")) > 0
    /\ db["target"]["users"].rows = EmptyBag


\* C15: the rows of a table are written by one insert; after a call that
\* failed in the insert of a table, the table holds the rows it held before
\* the insert (none, with truncate) and no row of the batch.
C15_InsertAllOrNothing ==
    last.op \in {"sync_data", "sync_all"} =>
        \A t \in TableNames :
            /\ Cardinality(Places("insert", t)) <= 1
            /\ last.failed = Failure("insert", t) =>
                  /\ ~last.ok
                  /\ db["target"][t].rows =
                        IF last.truncate THEN EmptyBag
                        ELSE Pre.db["target"][t].rows

\* C15 witness: sync_data() failed in the insert of the two rows of users
\* into an existing table; none of the two is in the table.
C15_Witness ==
    /\ last.op = "sync_data" /\ ~last.truncate /\ ~last.ok
    /\ last.failed = Failure("insert", "users")
    /\ BagCardinality(SourceRows("users")) = 2
    /\ db["target"]["users"].exists
    /\ BagCardinality(db["target"]["users"].rows) = 1
    /\ \A r \in DOMAIN db["target"]["users"].rows : ~FromSource("users", r)


\* The tables the loops of the last call would have taken after table t.
Later(t) == (CatNames(SelectedSeq) \ Earlier(t)) \ {t}

\* C16: a schema sync that fails creating a table returns false at once: the
\* failed create is its last step, the table and every table later in the
\* order are in the target database as they were (not created), and the
\* tables created earlier in the call exist.
C16_CreateFailureAborts ==
    last.op \in {"sync_schema", "sync_all"} =>
        \A n \in TableNames :
            FailedCreating(n) =>
                /\ ~last.ok
                /\ last.log[Len(last.log)] = Step("create", n)
                /\ \A t \in Later(n) \cup {n} :
                      /\ db["target"][t] = Pre.db["target"][t]
                      /\ t # n => Places("create", t) = {}
                /\ \A t \in Earlier(n) \ CatNames(PreTargetCat) :
                      /\ Places("create", t) # {}
                      /\ db["target"][t].exists

\* C16 witness: sync_schema() failed creating orders, the first of two tables
\* the target lacks; users, the second, has not been created.
C16_Witness ==
    /\ last.op = "sync_schema" /\ ~last.ok
    /\ FailedCreating("orders")
    /\ "users" \in Later("orders") \ CatNames(PreTargetCat)
    /\ ~Pre.db["target"]["users"].exists
    /\ ~db["target"]["users"].exists /\ ~db["target"]["orders"].exists


\* The last call has refreshed the target catalog: a sync_schema() that
\* returned true, or a sync_data() that got past its refresh.
Refreshed ==
    \/ last.op = "sync_schema" /\ last.ok
    \/ /\ last.op = "sync_data"
       /\ Places("reflect", "-") # {}
       /\ last.failed.kind # "reflect_data"

\* C17 (as claimed): after a refresh of the target catalog the snapshot holds
\* exactly the tables of the target database, each with the columns it has
\* there; a table that is gone from the database is gone from the snapshot.
C17_RefreshReplacesSnapshot ==
    Refreshed =>
        /\ CatNames(TargetCat) = Available(db["target"])
        /\ \A t \in CatNames(TargetCat) :
              CatEntry(TargetCat, t).cols = db["target"][t].cols

\* What the refresh does: the tables of the database that the snapshot lacked
\* are added, and every entry of the snapshot stays as it was.
C17_RefreshOnlyAdds ==
    Refreshed =>
        /\ CatNames(TargetCat) = CatNames(PreTargetCat) \cup Available(db["target"])
        /\ \A t \in CatNames(PreTargetCat) :
              CatEntry(TargetCat, t) = CatEntry(PreTargetCat, t)


\* The selected tables that the target database held and the target catalog
\* lacked when the last call started: created after the last snapshot.
Unseen == (Selected \cap Available(Pre.db["target"])) \ CatNames(PreTargetCat)

\* C18: sync_data() refreshes the target catalog before anything else; a
\* selected table created in the target after the last snapshot is in the
\* refreshed catalog and is not skipped, and when the call returns true it
\* has been read and holds the rows of the source on top of the rows it held
\* (none after a truncation).
C18_RefreshBeforeSkip ==
    (last.op = "sync_data" /\ last.failed.kind \notin {"not_connected", "reflect_data"}) =>
        /\ last.log # << >> /\ last.log[1] = Step("reflect", "-")
        /\ \A t \in Unseen :
              /\ t \in CatNames(TargetCat)
              /\ Places("skip", t) = {}
              /\ last.ok =>
                    /\ Places("read", t) # {}
                    /\ BagCardinality(db["target"][t].rows) = RowsExpected(t)

\* C18 witness: users, created in the target by a sync_schema() that failed
\* afterwards (the catalog does not list it, its id is a primary key), has
\* received the two rows of the source from sync_data().
C18_Witness ==
    /\ last.op = "sync_data" /\ last.ok
    /\ "users" \in Unseen
    /\ PrimaryKey(Pre.db["target"]["users"].cols) = {"id"}
    /\ BagCardinality(SourceRows("users")) = 2
    /\ RowsMatch("users")


\* The steps of the data loop.
DataSteps == {"skip", "truncate", "read", "insert"}

\* C19: a data sync that fails in the transfer of a table returns false at
\* once: the failed step is its last step, and it has gone into no step of a
\* table later in the order, whose rows are as they were.
C19_TransferFailureStopsLoop ==
    last.op \in {"sync_data", "sync_all"} =>
        \A n \in TableNames :
            FailedMoving(n) =>
                /\ ~last.ok
                /\ last.log[Len(last.log)] = Step(last.failed.kind, n)
                /\ \A t \in Later(n) :
                      /\ \A k \in DataSteps : Places(k, t) = {}
                      /\ db["target"][t].rows = Pre.db["target"][t].rows
                      /\ last.op = "sync_data" =>
                            db["target"][t] = Pre.db["target"][t]

\* C19 witness: sync_data(truncate_target=True) failed reading orders, the
\* first table; users, the second, holds its old rows and none of the source.
C19_Witness ==
    /\ last.op = "sync_data" /\ last.truncate /\ ~last.ok
    /\ last.failed = Failure("read", "orders")
    /\ "users" \in Later("orders") \cap Populated
    /\ BagCardinality(SourceRows("users")) > 0
    /\ db["target"]["users"] = Pre.db["target"]["users"]


\* C20: after a sync_schema() that returned false the catalogs are the ones
\* from before the call; when it failed creating a table, it has not gone
\* into the refresh, and the tables it created before exist in the target
\* database and are absent from the target catalog.
C20_RefreshOnlyOnSuccess ==
    (last.op = "sync_schema" /\ ~last.ok) =>
        /\ metadata = Pre.metadata
        /\ \A n \in TableNames :
              FailedCreating(n) =>
                  /\ Places("reflect", "-") = {}
                  /\ \A t \in Earlier(n) \ CatNames(PreTargetCat) :
                        /\ db["target"][t].exists
                        /\ t \notin CatNames(TargetCat)

\* C20 witness: sync_schema() created orders and failed creating users;
\* orders is in the target database and not in the target catalog.
C20_Witness ==
    /\ last.op = "sync_schema" /\ ~last.ok
    /\ FailedCreating("users")
    /\ "orders" \in Earlier("users")
    /\ ~Pre.db["target"]["orders"].exists
    /\ db["target"]["orders"].exists
    /\ "orders" \notin CatNames(TargetCat)

\* The tables the source database held before the call and the source
\* catalog did not: created after the snapshot.
BehindSnapshot ==
    Available(Pre.db["source"]) \ CatNames(Pre.metadata["source"].tables)

\* C21: sync_schema, sync_data and sync_all never refresh the source catalog:
\* after each of them, whatever it returned, the source catalog is the one
\* from before the call, every step of the call is on a table of that
\* catalog, and a table the source database held without the catalog holding
\* it is in no step of the call and is in the target as it was before the
\* call (not created there, no row of it changed).
C21_SourceSnapshotOnly ==
    last.op \in SyncOps =>
        /\ metadata["source"] = Pre.metadata["source"]
        /\ \A k \in 1..Len(last.log) :
              last.log[k].table \in
                  {"-"} \cup CatNames(Pre.metadata["source"].tables)
        /\ \A t \in BehindSnapshot :
              /\ db["target"][t] = Pre.db["target"][t]
              /\ \A k \in 1..Len(last.log) : last.log[k].table # t

\* A sync_all returned true and copied the rows of orders, while users, which
\* the source database held with a row and the source catalog did not hold,
\* is not in the target.
C21_Witness ==
    /\ last.op = "sync_all" /\ last.ok
    /\ "users" \in BehindSnapshot
    /\ Pre.db["source"]["users"].rows # EmptyBag
    /\ ~db["target"]["users"].exists
    /\ ~Pre.db["target"]["orders"].exists
    /\ db["target"]["orders"].rows # EmptyBag

\* The last call once more, from the state it started from, with no list of
\* tables.
RerunUnfiltered(fault) ==
    CASE last.op = "sync_schema" ->
            SchemaRun(Pre.db, Pre.metadata, NoFilter, fault)
      [] last.op = "sync_data" ->
            DataRun(Pre.db, Pre.metadata, NoFilter, last.truncate, fault)
      [] OTHER ->
            AllRun(Pre.db, Pre.metadata, NoFilter, last.truncate, fault)

\* C22: a sync call with an empty list of tables takes every table of the
\* source catalog, as the call without a list does: it ends as that call
\* ends from the same state, with the same steps; and when it returned true,
\* every table of the source catalog is in the target catalog (sync_schema,
\* sync_all) and has been read, or skipped for lack of a target table
\* (sync_data, sync_all).
C22_EmptyFilterMeansAll ==
    (last.op \in SyncOps /\ last.tables = EmptyFilter) =>
        /\ Selected = CatNames(Pre.metadata["source"].tables)
        /\ \E fault \in {NoFault, last.failed} :
              LET r == RerunUnfiltered(fault)
              IN  EndedAs(r) /\ r.log = last.log
        /\ last.ok =>
              \A t \in CatNames(Pre.metadata["source"].tables) :
                 /\ last.op # "sync_data" => t \in CatNames(TargetCat)
                 /\ last.op # "sync_schema" =>
                       Places("read", t) \cup Places("skip", t) # {}

\* A sync_all with an empty list on a source of users and orders and a target
\* without tables returned true, and both tables are in the target with the
\* rows of the source.
C22_Witness ==
    /\ last.op = "sync_all" /\ last.ok /\ last.tables = EmptyFilter
    /\ CatNames(Pre.metadata["source"].tables) = TableNames
    /\ Available(Pre.db["target"]) = {}
    /\ \A t \in TableNames :
          /\ db["target"][t].exists
          /\ db["target"][t].rows # EmptyBag

\* The tables of a database with their columns, the rows left aside.
Schema(tables) ==
    [t \in TableNames |-> [exists |-> tables[t].exists, cols |-> tables[t].cols]]

\* The rows of the tables of a database.
Rows(tables) == [t \in TableNames |-> tables[t].rows]

\* C23: every step that is a sync call, whatever the call returns, leaves the
\* engine of both endpoints as it was (nothing is closed, nothing is opened)
\* and the source database as it was; a sync_schema leaves the rows of every
\* target table as they were, and a sync_data leaves the tables of the target
\* and their columns as they were (it creates none).
C23_LanesKept ==
    [][last'.op \in SyncOps =>
          /\ engine' = engine
          /\ connected' = connected
          /\ db'["source"] = db["source"]
          /\ last'.op = "sync_schema" =>
                Rows(db'["target"]) = Rows(db["target"])
          /\ last'.op = "sync_data" =>
                Schema(db'["target"]) = Schema(db["target"])]_vars

\* A sync_data on endpoints of which the source has been closed by the caller
\* returned true: it wrote the rows of users into the target and skipped
\* orders, which the target lacked and still lacks.
C23_Witness ==
    /\ last.op = "sync_data" /\ last.ok
    /\ engine["source"] = "disposed" /\ engine["target"] = "open"
    /\ Places("insert", "users") # {}
    /\ db["target"]["users"].rows # Pre.db["target"]["users"].rows
    /\ Places("skip", "orders") # {}
    /\ ~db["target"]["orders"].exists

\* The command went into the sync operation.
Synced == Places("sync", "-") # {}

\* C24: after the sync command, on every exit path, each endpoint that was
\* opened (its engine was made) and whose own close did not fail is closed,
\* the target also when the close of the source failed; and the exit code is
\* not zero whenever the sync operation returned false or raised.
C24_ClosedOnEveryExitPath ==
    last.op = "sync_command" =>
        /\ \A e \in Endpoints :
              (engine[e] # None /\ Places("raised", e) = {}) =>
                  engine[e] = "disposed"
        /\ (Synced /\ last.failed # NoFailure) => ~last.ok

\* C24, what holds: the exit code is zero exactly when the command went into
\* the sync operation and it returned true, and unless the close of the
\* source failed every opened endpoint whose own close did not fail is closed.
C24_ClosedUnlessSourceCloseFails ==
    last.op = "sync_command" =>
        /\ Places("raised", "source") = {} =>
              \A e \in Endpoints :
                 (engine[e] # None /\ Places("raised", e) = {}) =>
                     engine[e] = "disposed"
        /\ last.ok <=> (Synced /\ last.failed = NoFailure)

\* The close of the source failed after a sync that returned true, and the
\* target, which was opened, was left open.
C24_TargetLeftOpen ==
    /\ last.op = "sync_command" /\ last.ok
    /\ Places("raised", "source") # {}
    /\ engine["target"] = "open"

====
